---- MODULE Spec2Model ----
(***************************************************************************)
(* A model of the Labjack LJStreamUD data-file parser: src/lj_parse.py     *)
(* (sort_lj_data, walk_dir, read_specific_lines, header_date_time,         *)
(* lj_dataframe) and its variant src/parse.py (lj_dataframe without the    *)
(* rename pass, with a re-sort of the rows).                               *)
(*                                                                         *)
(* Python strings are sequences of one-character strings, so that split,   *)
(* slicing, formatting and lexical comparison are computed, not assumed.   *)
(* A file is a path (a string) with its contents (a sequence of lines,     *)
(* each a string without its line terminator).                             *)
(***************************************************************************)
EXTENDS Integers, Sequences, FiniteSets, TLC

VARIABLES
    os_name,       \* "posix" or "nt": the host's os module
    tz,            \* the host's local-time offset from UTC, in seconds
    directory,     \* the argument of sort_lj_data / lj_dataframe
    fs,            \* the file system: path |-> sequence of lines
    fs0,           \* the file system before the first call (history)
    pc,            \* position in the running function
    call,          \* which call of sort_lj_data is running (1 or 2)
    file_list,     \* sort_lj_data's / lj_dataframe's local file_list
    idx,           \* position of the running for loop in its list
    renamed,       \* the renames performed by this call: <<name, new_name>>
    sorted_files,  \* sort_lj_data's return value
    err,           \* the exception that ended the call, or "none"
    first,         \* what the first call left: [fs, ret] (history)
    variant,       \* "lj_parse" or "parse": which lj_dataframe runs
    df,            \* lj_dataframe's data frame: a sequence of rows
    t0,            \* lj_dataframe's t0
    table,         \* lj_dataframe's return value: rows with the time column
    rfile,         \* the lines of the file read_specific_lines iterates
    gen            \* read_specific_lines' generator state

vars == <<os_name, tz, directory, fs, fs0, pc, call, file_list, idx, renamed,
          sorted_files, err, first, variant, df, t0, table, rfile, gen>>

sortVars == <<call, file_list, idx, renamed, sorted_files, first>>
dfVars == <<variant, df, t0, table>>
genVars == <<rfile, gen>>

(***************************************************************************)
(* Characters and strings.                                                 *)
(***************************************************************************)

\* The characters the model's inputs use, in increasing code-point order
\* (the order Python's str comparison and list.sort use).
Chars == <<"\t", " ", ".", "/", "0", "1", "2", "3", "4", "5", "6", "7", "8",
           "9", ":", "A", "M", "P", "\\", "_", "a", "b", "c", "d", "m", "n", "p",
           "r", "t", "x">>

Ord(c) == CHOOSE i \in 1..Len(Chars) : Chars[i] = c

Digits == <<"0", "1", "2", "3", "4", "5", "6", "7", "8", "9">>

IsDigit(c) == \E i \in 1..10 : Digits[i] = c

DigitVal(c) == (CHOOSE i \in 1..10 : Digits[i] = c) - 1

Min(a, b) == IF a < b THEN a ELSE b

Max(a, b) == IF a > b THEN a ELSE b

\* The positions of a character in a string.
PosOf(s, c) == {i \in 1..Len(s) : s[i] = c}

\* max(S)
MaxOf(S) == CHOOSE i \in S : \A j \in S : j <= i

\* Python's a < b on str: the first differing character decides, a proper
\* prefix is smaller.
StrLess(a, b) ==
    LET n == Min(Len(a), Len(b))
        diff == {i \in 1..n : a[i] # b[i]}
    IN  IF diff = {}
        THEN Len(a) < Len(b)
        ELSE LET i == CHOOSE j \in diff : \A k \in diff : j <= k
             IN  Ord(a[i]) < Ord(b[i])

\* list.sort() of a list of distinct strings, given as the set of its
\* elements.
RECURSIVE SortStrs(_)
SortStrs(S) ==
    IF S = {} THEN <<>>
    ELSE LET m == CHOOSE x \in S : \A y \in S \ {x} : StrLess(x, y)
         IN  <<m>> \o SortStrs(S \ {m})

RECURSIVE SplitFrom(_, _, _, _, _)
SplitFrom(s, c, i, cur, acc) ==
    IF i > Len(s) THEN Append(acc, cur)
    ELSE IF s[i] = c THEN SplitFrom(s, c, i + 1, <<>>, Append(acc, cur))
    ELSE SplitFrom(s, c, i + 1, Append(cur, s[i]), acc)

\* Python's s.split(c) for a one-character separator c.
Split(s, c) == SplitFrom(s, c, 1, <<>>, <<>>)

RECURSIVE Join(_, _)
\* Python's c.join(parts).
Join(parts, c) ==
    IF Len(parts) = 0 THEN <<>>
    ELSE IF Len(parts) = 1 THEN parts[1]
    ELSE parts[1] \o c \o Join(Tail(parts), c)

\* Python's s[-3:].
Last3(s) == SubSeq(s, Max(1, Len(s) - 2), Len(s))

Dat == <<"d", "a", "t">>

\* Python's int(s) on a string of decimal digits.
RECURSIVE DigitsVal(_)
DigitsVal(s) ==
    IF Len(s) = 0 THEN 0
    ELSE 10 * DigitsVal(SubSeq(s, 1, Len(s) - 1)) + DigitVal(s[Len(s)])

AllDigits(s) == Len(s) > 0 /\ \A i \in 1..Len(s) : IsDigit(s[i])

\* Whether int(s) returns (on the strings of one character the rename loop
\* passes it, exactly the digits); it raises ValueError otherwise.
IntParses(s) == AllDigits(s)

PyInt(s) == DigitsVal(s)

RECURSIVE DecStr(_)
\* Python's "%d" % k for k >= 0.
DecStr(k) ==
    IF k < 10 THEN <<Digits[k + 1]>>
    ELSE DecStr(k \div 10) \o <<Digits[(k % 10) + 1]>>

\* A time in seconds since the epoch, which np.float64 holds exactly, kept
\* as whole days and the seconds of the day after them: the time is
\* 86400 * days + secs, with 0 <= secs < 86400.
Seconds(days, secs) ==
    [days |-> days + (secs \div 86400), secs |-> secs % 86400]

\* The time x seconds after the time t.
Plus(x, t) == Seconds(t.days, t.secs + x)

\* Whether the time a is the time b or before it.
TimeLeq(a, b) == a.days < b.days \/ (a.days = b.days /\ a.secs <= b.secs)

\* The width of the zero padding in sort_lj_data's "%02d".
PadWidth == 2

RECURSIVE ZeroPad(_, _)
ZeroPad(s, w) == IF Len(s) >= w THEN s ELSE ZeroPad(<<"0">> \o s, w)

\* Python's "%02d" % k for k >= 0.
Fmt02d(k) == ZeroPad(DecStr(k), PadWidth)

(***************************************************************************)
(* Paths and the file system.                                              *)
(***************************************************************************)

\* os.path.sep of the host.
Sep == IF os_name = "nt" THEN "\\" ELSE "/"

RECURSIVE NormComps(_, _, _)
\* The loop of normpath over the components: "" and "." are dropped, ".."
\* removes the component before it (at the root it is dropped).
NormComps(comps, i, new) ==
    IF i > Len(comps) THEN new
    ELSE LET comp == comps[i]
         IN  IF comp = <<>> \/ comp = <<".">> THEN NormComps(comps, i + 1, new)
             ELSE IF comp # <<".", ".">> THEN NormComps(comps, i + 1, Append(new, comp))
             ELSE IF Len(new) > 0
             THEN NormComps(comps, i + 1, SubSeq(new, 1, Len(new) - 1))
             ELSE NormComps(comps, i + 1, new)

\* os.path.normpath of an absolute path written with "/" (one leading "/",
\* no drive): on nt every "/" becomes "\\"; empty and "." components go, so
\* does a trailing separator.
NormPath(p) ==
    <<Sep>> \o Join(NormComps(Split(p, "/"), 1, <<>>), <<Sep>>)

\* The path walk_dir gives a file of the directory:
\* root_folder + os.path.sep + one_file.
FullPath(root, one_file) == root \o <<Sep>> \o one_file

\* The positions of the separators in a path.
SepPos(p) == {i \in 1..Len(p) : p[i] = Sep}

\* The directory a path lies in (os.path.dirname).
DirName(p) ==
    LET last == CHOOSE i \in SepPos(p) : \A j \in SepPos(p) : j <= i
    IN  IF last = 1 THEN <<Sep>> ELSE SubSeq(p, 1, last - 1)

\* The file name of a path (os.path.basename).
BaseName(p) ==
    LET last == CHOOSE i \in SepPos(p) : \A j \in SepPos(p) : j <= i
    IN  SubSeq(p, last + 1, Len(p))

\* The directories that exist: the one listed and those above it.
ExistingDirs ==
    LET root == NormPath(directory)
    IN  {root, <<Sep>>} \cup {SubSeq(root, 1, i - 1) : i \in SepPos(root) \ {1}}

\* os.walk(rf).next()'s file_list: the names of the files in the directory.
ListDir(files, root) ==
    {BaseName(p) : p \in {q \in DOMAIN files : DirName(q) = root}}

\* walk_dir(root_folder)[0]: the sorted file names, each with the root and
\* the separator before it.
walk_dir(files, root_folder) ==
    LET rf == NormPath(root_folder)
        names == SortStrs(ListDir(files, rf))
    IN  [i \in 1..Len(names) |-> FullPath(rf, names[i])]

\* Whether os.rename(src, dst) raises OSError: when dst's directory does
\* not exist, and on nt when dst exists.
RenameFails(files, src, dst) ==
    \/ DirName(dst) \notin ExistingDirs
    \/ dst \in DOMAIN files /\ os_name = "nt"

\* The files after os.rename(src, dst): on posix an existing dst is replaced.
OsRename(files, src, dst) ==
    [p \in (DOMAIN files \ {src}) \cup {dst} |->
        IF p = dst THEN files[src] ELSE files[p]]

(***************************************************************************)
(* sort_lj_data (src/lj_parse.py, lines 20-72).                            *)
(***************************************************************************)

\* name[-3:] == "dat"
IsDat(name) == Last3(name) = Dat

\* The body of the rename loop for one name (lines 51-57), without its
\* effect: what it does ("skip", "rename" to new_name, or the exception it
\* raises). Python's g[1], here g[2] (sequences count from 1), is the text
\* after the FIRST "_" of the whole path; Python's h[0], here h[1], is the
\* part of it before its first ".".
RenamePlan(name) ==
    IF ~IsDat(name) THEN [kind |-> "skip"]
    ELSE LET g == Split(name, "_")
         IN  IF Len(g) < 2 THEN [kind |-> "IndexError"]
             ELSE LET h == Split(g[2], ".")
                  IN  IF Len(h[1]) # 1 THEN [kind |-> "skip"]
                      ELSE IF ~IntParses(h[1]) THEN [kind |-> "ValueError"]
                      ELSE IF Len(h) < 2 THEN [kind |-> "IndexError"]
                      ELSE [kind |-> "rename",
                            new_name |-> g[1] \o <<"_">> \o Fmt02d(PyInt(h[1]))
                                           \o <<".">> \o h[2]]

\* Lines 65-70: the names ending in "dat", sorted.
DatFiles(list) ==
    SortStrs({list[i] : i \in {j \in 1..Len(list) : IsDat(list[j])}})

\* Lines 43-46: the first scan of the directory.
Walk ==
    /\ pc = "start"
    /\ file_list' = walk_dir(fs, directory)
    /\ idx' = 1
    /\ renamed' = <<>>
    /\ pc' = "rename"
    /\ UNCHANGED <<os_name, tz, directory, fs, fs0, call, sorted_files, err,
                   first, dfVars, genVars>>

\* Lines 50-59: one iteration of the rename loop.
RenameStep ==
    /\ pc = "rename"
    /\ idx <= Len(file_list)
    /\ LET name == file_list[idx]
           plan == RenamePlan(name)
       IN  IF plan.kind = "skip"
           THEN /\ idx' = idx + 1
                /\ UNCHANGED <<fs, renamed, pc, err>>
           ELSE IF plan.kind = "rename"
           THEN IF RenameFails(fs, name, plan.new_name)
                THEN /\ pc' = "raised"
                     /\ err' = "OSError"
                     /\ UNCHANGED <<fs, renamed, idx>>
                ELSE     /\ fs' = OsRename(fs, name, plan.new_name)
                         /\ renamed' = Append(renamed, <<name, plan.new_name>>)
                         /\ idx' = idx + 1
                         /\ UNCHANGED <<pc, err>>
           ELSE /\ pc' = "raised"
                /\ err' = plan.kind
                /\ UNCHANGED <<fs, renamed, idx>>
    /\ UNCHANGED <<os_name, tz, directory, fs0, call, file_list, sorted_files,
                   first, dfVars, genVars>>

\* Lines 63-72: the second scan, the filter, the sort and the return.
Rescan ==
    /\ pc = "rename"
    /\ idx > Len(file_list)
    /\ file_list' = walk_dir(fs, directory)
    /\ sorted_files' = DatFiles(file_list')
    /\ first' = IF call = 1 THEN [fs |-> fs, ret |-> sorted_files'] ELSE first
    /\ pc' = "done"
    /\ UNCHANGED <<os_name, tz, directory, fs, fs0, call, idx, renamed, err,
                   dfVars, genVars>>

\* The caller runs sort_lj_data again on the directory the first call left:
\* a new call, with its locals fresh.
CallAgain ==
    /\ pc = "done"
    /\ call = 1
    /\ call' = 2
    /\ pc' = "start"
    /\ file_list' = <<>>
    /\ idx' = 1
    /\ renamed' = <<>>
    /\ sorted_files' = <<>>
    /\ UNCHANGED <<os_name, tz, directory, fs, fs0, err, first, dfVars, genVars>>

(***************************************************************************)
(* The directories sort_lj_data is run on.                                 *)
(***************************************************************************)

\* The most files a directory of the model holds.
MaxFiles == 3

\* The directory arguments: plain (with a trailing separator for normpath to
\* remove), with a "_" in the path, and with "_" and "." in the path.
Dirs == { <<"/", "d", "/">>,
          <<"/", "d", "_", "a">>,
          <<"/", "r", "_", "1", ".", "d">> }

\* File names: un-padded and padded suffixes, a suffix of three digits,
\* suffixes that are no number, a name without "_", a file that is no data
\* file, and prefixes that hold "_" or ".".
Names == { <<"x", "_", "1", ".", "d", "a", "t">>,
           <<"x", "_", "2", ".", "d", "a", "t">>,
           <<"x", "_", "0", "1", ".", "d", "a", "t">>,
           <<"x", "_", "1", "1", ".", "d", "a", "t">>,
           <<"x", "_", "1", "0", "0", ".", "d", "a", "t">>,
           <<"x", "_", "a", "b", ".", "d", "a", "t">>,
           <<"x", "_", "a", ".", "d", "a", "t">>,
           <<"x", "d", "a", "t">>,
           <<"n", ".", "t", "x", "t">>,
           <<"a", ".", "b", "_", "1", ".", "d", "a", "t">>,
           <<"a", "_", "1", "_", "5", ".", "d", "a", "t">>,
           <<"a", "_", "b", "_", "1", ".", "d", "a", "t">>,
           <<"a", "_", "b", "c", "_", "1", ".", "d", "a", "t">>,
           <<"a", "_", "1", ".", "x", "_", "5", "5", ".", "d", "a", "t">> }

\* A file system holding the given names in the directory; each file's
\* content is one line, its original name, which tells the files apart.
MakeFs(root, names) ==
    [p \in {FullPath(root, n) : n \in names} |-> <<BaseName(p)>>]

NoFirst == [fs |-> <<>>, ret |-> <<>>]

Init ==
    /\ os_name \in {"posix", "nt"}
    /\ tz = 0
    /\ directory \in Dirs
    /\ \E names \in SUBSET Names :
          /\ Cardinality(names) <= MaxFiles
          /\ fs = MakeFs(NormPath(directory), names)
    /\ fs0 = fs
    /\ pc = "start"
    /\ call = 1
    /\ file_list = <<>>
    /\ idx = 1
    /\ renamed = <<>>
    /\ sorted_files = <<>>
    /\ err = "none"
    /\ first = NoFirst
    /\ variant = "none"
    /\ df = <<>>
    /\ t0 = Seconds(0, 0)
    /\ table = <<>>
    /\ rfile = <<>>
    /\ gen = <<>>

Next == Walk \/ RenameStep \/ Rescan \/ CallAgain

Spec == Init /\ [][Next]_vars

(***************************************************************************)
(* One recording session: the N files the logger wrote, x_1.dat to         *)
(* x_N.dat, their suffixes not padded.                                     *)
(***************************************************************************)

\* The most files of a session (one more than two digits can number).
MaxSeq == 100

SessionDir == <<"/", "d">>

SessionNames(n) ==
    {<<"x", "_">> \o DecStr(k) \o <<".">> \o Dat : k \in 1..n}

SeqInit ==
    /\ os_name \in {"posix", "nt"}
    /\ tz = 0
    /\ directory = SessionDir
    /\ \E n \in 1..MaxSeq : fs = MakeFs(NormPath(directory), SessionNames(n))
    /\ fs0 = fs
    /\ pc = "start"
    /\ call = 1
    /\ file_list = <<>>
    /\ idx = 1
    /\ renamed = <<>>
    /\ sorted_files = <<>>
    /\ err = "none"
    /\ first = NoFirst
    /\ variant = "none"
    /\ df = <<>>
    /\ t0 = Seconds(0, 0)
    /\ table = <<>>
    /\ rfile = <<>>
    /\ gen = <<>>

SeqNext == Walk \/ RenameStep \/ Rescan

SpecSeq == SeqInit /\ [][SeqNext]_vars

(***************************************************************************)
(* read_specific_lines and header_date_time (src/lj_parse.py, lines        *)
(* 109-157; src/parse.py, lines 54-101).                                   *)
(***************************************************************************)

\* The generator read_specific_lines(f, ...) before its first step: n lines
\* taken from the file so far, the lines yielded, and whether it has ended.
GenStart == [taken |-> 0, yielded |-> <<>>, ended |-> FALSE]

\* One turn of "for n, line in enumerate(file_object)": the loop takes the
\* next line from the file, if there is one (the generator ends otherwise);
\* its index n is the number of lines taken before it. The line is yielded
\* when n is one of the indexes; the generator returns when n > last.
GenStep(g, lines, indexes_to_read) ==
    IF g.taken >= Len(lines) THEN [g EXCEPT !.ended = TRUE]
    ELSE LET n == g.taken
             last == MaxOf(indexes_to_read)
         IN  [taken |-> g.taken + 1,
              yielded |-> IF n \in indexes_to_read
                          THEN Append(g.yielded, lines[n + 1])
                          ELSE g.yielded,
              ended |-> n > last]

RECURSIVE GenRun(_, _, _)
\* The generator run to its end, as a list comprehension runs it.
GenRun(g, lines, indexes_to_read) ==
    IF g.ended THEN g ELSE GenRun(GenStep(g, lines, indexes_to_read), lines, indexes_to_read)

\* header_date_time's indexes_to_read, [0, 1].
HeaderIndexes == {0, 1}

\* The white space among the model's characters: what str.strip() removes
\* and the regular expressions' \s matches.
IsSpace(c) == c = " " \/ c = "\t"

RECURSIVE Strip(_)
\* Python's s.strip().
Strip(s) ==
    IF Len(s) = 0 THEN s
    ELSE IF IsSpace(s[1]) THEN Strip(Tail(s))
    ELSE IF IsSpace(s[Len(s)]) THEN Strip(SubSeq(s, 1, Len(s) - 1))
    ELSE s

\* Python's s[from : from + n], the characters of s from the position
\* (counted from 1) on, n of them or as many as there are.
Piece(s, from, n) == SubSeq(s, from, Min(Len(s), from + n - 1))

\* A digit from lo to hi, the regular expressions' [lo-hi].
DigitIn(c, lo, hi) == IsDigit(c) /\ DigitVal(c) >= lo /\ DigitVal(c) <= hi

\* The letter in lower case (re.IGNORECASE and str.lower on the letters of
\* "AM" and "PM").
Lower(c) ==
    IF c = "A" THEN "a" ELSE IF c = "M" THEN "m" ELSE IF c = "P" THEN "p" ELSE c

\* The patterns of the directives in _strptime.TimeRE (Python 2.7), each as
\* the strings it matches in full.
\* %m: 1[0-2]|0[1-9]|[1-9]
TimeRE_m(s) ==
    \/ Len(s) = 2 /\ s[1] = "1" /\ DigitIn(s[2], 0, 2)
    \/ Len(s) = 2 /\ s[1] = "0" /\ DigitIn(s[2], 1, 9)
    \/ Len(s) = 1 /\ DigitIn(s[1], 1, 9)

\* %d: 3[0-1]|[1-2]\d|0[1-9]|[1-9]| [1-9]
TimeRE_d(s) ==
    \/ Len(s) = 2 /\ s[1] = "3" /\ DigitIn(s[2], 0, 1)
    \/ Len(s) = 2 /\ DigitIn(s[1], 1, 2) /\ IsDigit(s[2])
    \/ Len(s) = 2 /\ s[1] = "0" /\ DigitIn(s[2], 1, 9)
    \/ Len(s) = 1 /\ DigitIn(s[1], 1, 9)
    \/ Len(s) = 2 /\ s[1] = " " /\ DigitIn(s[2], 1, 9)

\* %Y: \d\d\d\d
TimeRE_Y(s) == Len(s) = 4 /\ AllDigits(s)

\* %I: 1[0-2]|0[1-9]|[1-9]
TimeRE_I(s) ==
    \/ Len(s) = 2 /\ s[1] = "1" /\ DigitIn(s[2], 0, 2)
    \/ Len(s) = 2 /\ s[1] = "0" /\ DigitIn(s[2], 1, 9)
    \/ Len(s) = 1 /\ DigitIn(s[1], 1, 9)

\* %M: [0-5]\d|\d
TimeRE_M(s) ==
    \/ Len(s) = 2 /\ DigitIn(s[1], 0, 5) /\ IsDigit(s[2])
    \/ Len(s) = 1 /\ IsDigit(s[1])

\* %S: 6[0-1]|[0-5]\d|\d
TimeRE_S(s) ==
    \/ Len(s) = 2 /\ s[1] = "6" /\ DigitIn(s[2], 0, 1)
    \/ Len(s) = 2 /\ DigitIn(s[1], 0, 5) /\ IsDigit(s[2])
    \/ Len(s) = 1 /\ IsDigit(s[1])

\* %p: am|pm (the C locale's), letters of either case.
TimeRE_p(s) ==
    /\ Len(s) = 2
    /\ Lower(s[1]) \in {"a", "p"}
    /\ Lower(s[2]) = "m"

\* The lengths the fields of one or two characters can have.
FieldLens == [m : 1..2, d : 1..2, I : 1..2, M : 1..2, S : 1..2]

\* Whether s, all of it, matches the pattern of "%m/%d/%Y%I:%M:%S %p",
\* (m)/(d)/(Y)(I):(M):(S)\s+(p), with fields of the lengths f. The white
\* space takes what the other parts leave, one character at least.
Matches(s, f) ==
    LET pd == f.m + 2
        pY == pd + f.d + 1
        pI == pY + 4
        pM == pI + f.I + 1
        pS == pM + f.M + 1
        pw == pS + f.S
        pp == Len(s) - 1
    IN  /\ pp > pw
        /\ TimeRE_m(Piece(s, 1, f.m))
        /\ Piece(s, pd - 1, 1) = <<"/">>
        /\ TimeRE_d(Piece(s, pd, f.d))
        /\ Piece(s, pY - 1, 1) = <<"/">>
        /\ TimeRE_Y(Piece(s, pY, 4))
        /\ TimeRE_I(Piece(s, pI, f.I))
        /\ Piece(s, pM - 1, 1) = <<":">>
        /\ TimeRE_M(Piece(s, pM, f.M))
        /\ Piece(s, pS - 1, 1) = <<":">>
        /\ TimeRE_S(Piece(s, pS, f.S))
        /\ \A i \in pw..(pp - 1) : IsSpace(s[i])
        /\ TimeRE_p(Piece(s, pp, 2))

IsLeap(y) == (y % 4 = 0 /\ y % 100 # 0) \/ y % 400 = 0

DaysInMonth(y, m) ==
    IF m = 2 THEN (IF IsLeap(y) THEN 29 ELSE 28)
    ELSE IF m \in {4, 6, 9, 11} THEN 30 ELSE 31

\* The leap years from year 1 to year n.
LeapsTo(n) == (n \div 4) - (n \div 100) + (n \div 400)

RECURSIVE DaysBeforeMonth(_, _)
DaysBeforeMonth(y, m) ==
    IF m = 1 THEN 0 ELSE DaysBeforeMonth(y, m - 1) + DaysInMonth(y, m - 1)

\* The days from 1970-01-01 to the date.
DaysFromEpoch(y, m, d) ==
    365 * (y - 1970) + (LeapsTo(y - 1) - LeapsTo(1969))
        + DaysBeforeMonth(y, m) + (d - 1)

\* time.strptime(s, "%m/%d/%Y%I:%M:%S %p"): the fields of the match (the
\* literals between the fields leave one way at most to match s), each
\* through int(), which passes over the blank of a day " 1"; the hour from
\* the 12-hour clock and am or pm. ok is FALSE where strptime raises
\* ValueError: no match, text left after the match, or no such date (the
\* year 0, a day the month does not have).
StrpTime(s) ==
    LET found == {f \in FieldLens : Matches(s, f)}
    IN  IF found = {} THEN [ok |-> FALSE]
        ELSE LET f == CHOOSE x \in found : TRUE
                 pd == f.m + 2
                 pY == pd + f.d + 1
                 pI == pY + 4
                 pM == pI + f.I + 1
                 pS == pM + f.M + 1
                 year == DigitsVal(Piece(s, pY, 4))
                 month == DigitsVal(Piece(s, 1, f.m))
                 day == DigitsVal(SelectSeq(Piece(s, pd, f.d), IsDigit))
                 hour == DigitsVal(Piece(s, pI, f.I))
                 pm == Lower(s[Len(s) - 1]) = "p"
             IN  IF year = 0 \/ day > DaysInMonth(year, month)
                 THEN [ok |-> FALSE]
                 ELSE [ok |-> TRUE,
                       year |-> year, mon |-> month, mday |-> day,
                       hour |-> (hour % 12) + (IF pm THEN 12 ELSE 0),
                       min |-> DigitsVal(Piece(s, pM, f.M)),
                       sec |-> DigitsVal(Piece(s, pS, f.S))]

\* time.mktime raises ValueError for a year from 100 to 1899.
YearOutOfRange(y) == y >= 100 /\ y < 1900

\* The year time.mktime reads (time.accept2dyear at its default): a year to
\* 68 is of the century of 2000, a year from 69 to 99 of that of 1900.
FullYear(y) == IF y <= 68 THEN y + 2000 ELSE IF y <= 99 THEN y + 1900 ELSE y

\* time.mktime(t): the seconds since the epoch of the local time t, on a
\* host whose local time is offset seconds ahead of UTC all year.
MkTime(t, offset) ==
    Seconds(DaysFromEpoch(FullYear(t.year), t.mon, t.mday),
            t.hour * 3600 + t.min * 60 + t.sec - offset)

\* header_date_time on a file with the given lines: the lines 0 and 1 from
\* the generator, stripped, joined and parsed. IndexError when the generator
\* yielded fewer than two lines, ValueError from strptime or from mktime.
header_date_time(lines, offset) ==
    LET l_12 == GenRun(GenStart, lines, HeaderIndexes).yielded
        t == StrpTime(Strip(l_12[1]) \o Strip(l_12[2]))
    IN  IF Len(l_12) < 2 THEN [raised |-> "IndexError"]
        ELSE IF ~t.ok THEN [raised |-> "ValueError"]
        ELSE IF YearOutOfRange(t.year) THEN [raised |-> "ValueError"]
        ELSE [raised |-> "none", t |-> MkTime(t, offset)]

\* Line 150-151: header_date_time opens the file and makes the generator.
GenOpen ==
    /\ pc = "open"
    /\ gen' = GenStart
    /\ pc' = "iterate"
    /\ UNCHANGED <<os_name, tz, directory, fs, fs0, err, sortVars, dfVars, rfile>>

\* Lines 125-129: the list comprehension asks the generator for its next
\* line, and the generator's loop makes one turn.
GenNext ==
    /\ pc = "iterate"
    /\ ~gen.ended
    /\ gen' = GenStep(gen, rfile, HeaderIndexes)
    /\ UNCHANGED <<os_name, tz, directory, fs, fs0, pc, err, sortVars, dfVars,
                   rfile>>

\* Lines 154-157: the two lines are parsed and the time is returned.
ParseHeader ==
    /\ pc = "iterate"
    /\ gen.ended
    /\ LET r == header_date_time(rfile, tz)
       IN  IF r.raised = "none"
           THEN /\ t0' = r.t
                /\ pc' = "returned"
                /\ UNCHANGED err
           ELSE /\ err' = r.raised
                /\ pc' = "raised"
                /\ UNCHANGED t0
    /\ UNCHANGED <<os_name, tz, directory, fs, fs0, sortVars, variant, df, table,
                   genVars>>

(***************************************************************************)
(* The files header_date_time is run on.                                   *)
(***************************************************************************)

Date1970 == <<"1", "/", "1", "/", "1", "9", "7", "0">>

Time1970 == <<"1", "2", ":", "0", "0", ":", "0", "5", " ", "A", "M">>

\* The header of the docstring of header_date_time.
Date2013 == <<"1", "2", "/", "9", "/", "2", "0", "1", "3">>

Time2013 == <<"7", ":", "2", "8", ":", "0", "6", " ", "P", "M">>

\* A date with a blank before the day and a year below 100.
Date0013 == <<"1", "/", " ", "1", "/", "0", "0", "1", "3">>

\* A date of a year time.mktime does not take.
Date1800 == <<"1", "/", "1", "/", "1", "8", "0", "0">>

\* A time with a tab before a "pM" of mixed case.
TimeTab == <<"1", ":", "0", "0", ":", "0", "0", "\t", "p", "M">>

\* A line of the device's preamble.
Preamble == <<"p">>

\* The most lines of a file header_date_time is run on.
MaxLines == 4

HeaderLines == {Date2013, Time2013, Date0013, Date1800, TimeTab, Preamble}

\* The offsets of the host's local time from UTC, in seconds: UTC, and the
\* Pacific time of the docstring's 1386646086.0.
TzOffsets == {0, 0 - 28800}

ReadInit ==
    /\ os_name = "posix"
    /\ tz \in TzOffsets
    /\ directory = SessionDir
    /\ fs = <<>>
    /\ fs0 = fs
    /\ pc = "open"
    /\ call = 1
    /\ file_list = <<>>
    /\ idx = 1
    /\ renamed = <<>>
    /\ sorted_files = <<>>
    /\ err = "none"
    /\ first = NoFirst
    /\ variant = "none"
    /\ df = <<>>
    /\ t0 = Seconds(0, 0)
    /\ table = <<>>
    /\ \E n \in 0..MaxLines : rfile \in [1..n -> HeaderLines]
    /\ gen = GenStart

ReadNextStep == GenOpen \/ GenNext \/ ParseHeader

SpecRead == ReadInit /\ [][ReadNextStep]_vars

(***************************************************************************)
(* lj_dataframe (src/lj_parse.py, lines 160-205; src/parse.py, lines       *)
(* 104-154). The rows of the model have as many fields as the caller gives *)
(* column names (two: "a", "b" in lj_parse.py; "time" and the caller's "a" *)
(* in parse.py), so that field i of a line is column i of the frame.       *)
(***************************************************************************)

\* read_csv's skiprows.
HeaderSkip == 12

\* The fields of one line, as numbers (the fields of the model's files are
\* strings of digits).
ParseRow(line) ==
    LET fields == Split(line, "\t")
    IN  [i \in 1..Len(fields) |-> PyInt(fields[i])]

\* pd.read_csv(file, sep="\t", skiprows=12, names=col_names): the lines
\* after the first twelve, the blank ones skipped, each split at the tabs.
read_csv(lines) ==
    LET data == SelectSeq(SubSeq(lines, HeaderSkip + 1, Len(lines)),
                          LAMBDA l : Len(l) > 0)
    IN  [i \in 1..Len(data) |-> ParseRow(data[i])]

\* The position in a row of column iloc[:, 1].
TimeColumn == 2

\* The position in a row of parse.py's column "time", the first name.
SortColumn == 1

\* WithUnixTime as it would be with iloc[:, 0] for iloc[:, 1].
WithUnixTime_FirstColumn(frame, t) ==
    [i \in 1..Len(frame) |-> Append(frame[i], Plus(frame[i][1], t))]

\* df["unix_time"] = df.iloc[:, 1] + t0: every row with one more column.
WithUnixTime(frame, t) ==
    [i \in 1..Len(frame) |-> Append(frame[i], Plus(frame[i][TimeColumn], t))]

\* Whether a frame's rows are in non-decreasing order of a column.
IsSortedBy(frame, col) ==
    \A i \in 1..Len(frame) : \A j \in i..Len(frame) : frame[i][col] <= frame[j][col]

\* df.sort(columns="time", axis=0): the orders of the rows that sort them by
\* the column; rows with equal keys may come in any order.
Sorted(frame, col) ==
    {q \in {[i \in 1..Len(frame) |-> frame[pi[i]]] :
               pi \in Permutations(1..Len(frame))} : IsSortedBy(q, col)}

\* The ordered file list lj_dataframe reads: sort_lj_data's in lj_parse.py,
\* walk_dir's in parse.py.
Files == IF variant = "lj_parse" THEN sorted_files ELSE file_list

\* lj_parse.py line 180 enters sort_lj_data; parse.py line 124 lists the
\* directory, all its files.
DfCall ==
    /\ pc = "call"
    /\ IF variant = "lj_parse"
       THEN /\ pc' = "start"
            /\ UNCHANGED file_list
       ELSE /\ file_list' = walk_dir(fs, directory)
            /\ pc' = "read"
    /\ UNCHANGED <<os_name, tz, directory, fs, fs0, call, idx, renamed,
                   sorted_files, err, first, dfVars, genVars>>

\* Lines 188-191 (134-137): the first file is read; IndexError when the list
\* is empty.
ReadFirst ==
    /\ pc = (IF variant = "lj_parse" THEN "done" ELSE "read")
    /\ variant # "none"
    /\ IF Len(Files) = 0
       THEN /\ err' = "IndexError"
            /\ pc' = "raised"
            /\ UNCHANGED <<df, idx>>
       ELSE /\ df' = read_csv(fs[Files[1]])
            /\ idx' = 2
            /\ pc' = "append"
            /\ UNCHANGED err
    /\ UNCHANGED <<os_name, tz, directory, fs, fs0, call, file_list, renamed,
                   sorted_files, first, variant, t0, table, genVars>>

\* Lines 194-199 (140-145): the next file's rows are appended.
ReadAppend ==
    /\ pc = "append"
    /\ idx <= Len(Files)
    /\ df' = df \o read_csv(fs[Files[idx]])
    /\ idx' = idx + 1
    /\ UNCHANGED <<os_name, tz, directory, fs, fs0, pc, call, file_list, renamed,
                   sorted_files, err, first, variant, t0, table, genVars>>

\* parse.py line 148: the rows are sorted by the column "time".
SortRows ==
    /\ pc = "append"
    /\ idx > Len(Files)
    /\ variant = "parse"
    /\ \E q \in Sorted(df, SortColumn) : df' = q
    /\ pc' = "time"
    /\ UNCHANGED <<os_name, tz, directory, fs, fs0, call, file_list, idx, renamed,
                   sorted_files, err, first, variant, t0, table, genVars>>

\* Lines 202-205 (151-154): the first file's header gives t0, the column is
\* added and the frame returned.
AddTime ==
    /\ \/ pc = "time"
       \/ pc = "append" /\ idx > Len(Files) /\ variant = "lj_parse"
    /\ LET r == header_date_time(fs[Files[1]], tz)
       IN  IF r.raised = "none"
           THEN /\ t0' = r.t
                /\ table' = WithUnixTime(df, r.t)
                /\ pc' = "returned"
                /\ UNCHANGED err
           ELSE /\ err' = r.raised
                /\ pc' = "raised"
                /\ UNCHANGED <<t0, table>>
    /\ UNCHANGED <<os_name, tz, directory, fs, fs0, call, file_list, idx, renamed,
                   sorted_files, first, variant, df, genVars>>

(***************************************************************************)
(* The directories lj_dataframe is run on.                                 *)
(***************************************************************************)

\* The most files of a directory lj_dataframe is run on.
MaxDfFiles == 2

DfNames == { <<"x", "_", "1", ".", "d", "a", "t">>,
             <<"x", "_", "2", ".", "d", "a", "t">>,
             <<"x", "_", "1", "0", ".", "d", "a", "t">>,
             <<"n", ".", "t", "x", "t">> }

\* The headers of the files: three that parse and one that does not.
Headers == { <<Date2013, Time2013>>, <<Date1970, Time1970>>,
             <<Date0013, TimeTab>>, <<Preamble, Preamble>> }

\* The data lines of the files: fields separated by a tab; the second set
\* ends with a blank line.
RowSets == { << <<"0", "\t", "1">>, <<"1", "\t", "1", "0">> >>,
             << <<"3", "\t", "0">>, <<>> >>,
             << <<"2", "\t", "5">>, <<"1", "\t", "4">> >> }

\* The lines of the device's preamble, between the header and the data.
PreambleLines == 10

\* A file: the two lines of the header, the ten of the preamble, the data.
MakeFile(header, rows) ==
    header \o [i \in 1..PreambleLines |-> Preamble] \o rows

DfContents == {MakeFile(h, r) : h \in Headers, r \in RowSets}

DfInit ==
    /\ os_name \in {"posix", "nt"}
    /\ tz \in TzOffsets
    /\ directory = SessionDir
    /\ \E names \in SUBSET DfNames :
          /\ Cardinality(names) <= MaxDfFiles
          /\ \E c \in [names -> DfContents] :
                fs = [p \in {FullPath(NormPath(directory), n) : n \in names}
                        |-> c[BaseName(p)]]
    /\ fs0 = fs
    /\ pc = "call"
    /\ call = 1
    /\ file_list = <<>>
    /\ idx = 1
    /\ renamed = <<>>
    /\ sorted_files = <<>>
    /\ err = "none"
    /\ first = NoFirst
    /\ variant \in {"lj_parse", "parse"}
    /\ df = <<>>
    /\ t0 = Seconds(0, 0)
    /\ table = <<>>
    /\ rfile = <<>>
    /\ gen = <<>>

DfNext ==
    \/ DfCall
    \/ Walk
    \/ RenameStep
    \/ Rescan
    \/ ReadFirst
    \/ ReadAppend
    \/ SortRows
    \/ AddTime

SpecDF == DfInit /\ [][DfNext]_vars

(***************************************************************************)
(* The terms of the claims: a data file's name as the specification reads  *)
(* it, <prefix>_<suffix>.<ext>, split at the LAST "_" and the last "." of  *)
(* the file's base name.                                                   *)
(***************************************************************************)

\* Whether the base name has a separator and, after it, an extension.
HasSuffix(p) ==
    LET b == BaseName(p)
    IN  /\ PosOf(b, "_") # {}
        /\ \E d \in PosOf(b, ".") : d > MaxOf(PosOf(b, "_"))

\* The text between the last "_" of the base name and the extension.
SuffixOf(p) ==
    LET b == BaseName(p)
    IN  SubSeq(b, MaxOf(PosOf(b, "_")) + 1, MaxOf(PosOf(b, ".")) - 1)

\* A data file whose suffix is a number.
Parsable(p) == IsDat(p) /\ HasSuffix(p) /\ AllDigits(SuffixOf(p))

\* A data file whose suffix is no number, or that has no suffix at all.
Unparsable(p) == IsDat(p) /\ ~Parsable(p)

SuffixNum(p) == DigitsVal(SuffixOf(p))

\* The path with its suffix zero-padded to the pad width, all else kept.
Padded(p) ==
    LET b == BaseName(p)
        u == MaxOf(PosOf(b, "_"))
        d == MaxOf(PosOf(b, "."))
    IN  FullPath(DirName(p),
                 SubSeq(b, 1, u) \o ZeroPad(SuffixOf(p), PadWidth)
                     \o SubSeq(b, d, Len(b)))

\* The elements of a list.
Range(list) == {list[i] : i \in 1..Len(list)}

\* The names this call renamed.
RenamedFrom == {renamed[i][1] : i \in 1..Len(renamed)}

\* The call has ended, by a return or by an exception.
Ended == pc \in {"done", "raised"}

\* A data file whose suffix has as many digits as the padding gives.
IsPadded(p) == Parsable(p) /\ Len(SuffixOf(p)) = PadWidth

\* C2 as stated: normalization is idempotent. A second call of sort_lj_data
\* on the directory a first call left performs no rename, raises nothing,
\* leaves the set of file names as it is and returns the list the first call
\* returned; and in no call, the first included, is a file renamed whose
\* suffix already has 2 digits.
C2_Idempotent ==
    /\ call = 2 =>
          /\ renamed = <<>>
          /\ pc # "raised"
          /\ fs = first.fs
          /\ \A p \in DOMAIN first.fs : IsPadded(p) => p \in DOMAIN fs
          /\ pc = "done" => sorted_files = first.ret
    /\ \A p \in RenamedFrom : ~IsPadded(p)

\* C3 as stated: with a data file whose suffix is 100 or more the call fails
\* (any exception is taken for SequenceOverflow) and so returns no list whose
\* lexical order is not the order of the numeric suffixes.
C3_SequenceOverflow ==
    (call = 1 /\ Ended
       /\ \E p \in DOMAIN fs0 : Parsable(p) /\ SuffixNum(p) >= 100)
    => pc = "raised"

\* C4 as stated: a data file whose suffix is no integer raises no error and
\* is left out of the returned list, and every data file with a parsable
\* suffix is in the list (under its padded name).
C4_UnparsableExcluded ==
    (call = 1 /\ Ended /\ \E p \in DOMAIN fs0 : Unparsable(p))
    => /\ pc = "done"
       /\ \A p \in DOMAIN fs0 :
             /\ Unparsable(p) => p \notin Range(sorted_files)
             /\ Parsable(p) => Padded(p) \in Range(sorted_files)

\* C8 as stated: every rename pads the suffix between the last "_" of the
\* base name and the extension and changes nothing else of the path, also
\* with "_" or "." in the directory path or the prefix, and every data file
\* with a 1-digit suffix is renamed.
C8_RenamePadsSuffix ==
    call = 1 =>
        /\ \A i \in 1..Len(renamed) :
              /\ Parsable(renamed[i][1])
              /\ renamed[i][2] = Padded(renamed[i][1])
        /\ Ended =>
              \A p \in DOMAIN fs0 :
                 (Parsable(p) /\ Len(SuffixOf(p)) = 1) => p \in RenamedFrom

\* C10 as stated: the rename pass destroys no file. In every state of the
\* pass the directory holds as many files as before it (no rename has
\* replaced a file that was there), and the files that do not end in "dat"
\* keep their names.
C10_NoFileDestroyed ==
    call = 1 =>
        /\ Cardinality(DOMAIN fs) = Cardinality(DOMAIN fs0)
        /\ \A p \in DOMAIN fs0 : ~IsDat(p) => p \in DOMAIN fs

\* C1 as stated: for a directory of N data files with the un-padded suffixes
\* 1..N, the returned list holds the N files in the order of their numbers.
C1_NumericOrder ==
    pc = "done" =>
        /\ Len(sorted_files) = Cardinality(DOMAIN fs0)
        /\ \A i \in 1..Len(sorted_files) :
              Parsable(sorted_files[i]) /\ SuffixNum(sorted_files[i]) = i

\* The data rows of a file: its lines after the 12-line preamble that are
\* not blank.
DataRows(lines) ==
    Cardinality({k \in 1..Len(lines) : k > HeaderSkip /\ Len(lines[k]) > 0})

RECURSIVE DataRowCount(_, _)
\* The data rows of the files of a list, summed.
DataRowCount(list, i) ==
    IF i > Len(list) THEN 0
    ELSE DataRows(fs[list[i]]) + DataRowCount(list, i + 1)

\* lj_dataframe has returned its table.
Returned == variant # "none" /\ pc = "returned"

\* lj_dataframe has ended, by a return or by an exception.
DfEnded == variant # "none" /\ pc \in {"returned", "raised"}

\* C5: the table lj_dataframe returns for a non-empty file list has as many
\* rows as its input files have lines after their 12-line preamble, and in
\* every row the added time column is the row's column of index 1 plus the
\* value header_date_time returns for the first file of the list.
C5_TableRows ==
    Returned =>
        /\ Len(table) = DataRowCount(Files, 1)
        /\ \A i \in 1..Len(table) :
              table[i][Len(table[i])]
                  = Plus(table[i][2], header_date_time(fs[Files[1]], tz).t)

\* C5's case: a table from two files whose headers give different times.
C5_Witness ==
    /\ Returned
    /\ Len(Files) = 2
    /\ Len(table) >= 3
    /\ fs[Files[1]][1] # fs[Files[2]][1]
    /\ \E i \in 1..Len(table) : table[i][1] # table[i][2]

\* C6 as stated: in the table either variant returns, the rows are in
\* non-decreasing order of the column of index 1, the one the time column
\* is derived from (and so of the time column).
C6_RowsInTimeOrder ==
    Returned =>
        \A i \in 1..Len(table) : \A j \in i..Len(table) :
           /\ table[i][2] <= table[j][2]
           /\ TimeLeq(table[i][Len(table[i])], table[j][Len(table[j])])

\* C7 as stated: with no data file in the directory lj_dataframe fails (any
\* exception is taken for EmptyFileSet) and returns no table.
C7_EmptyFileSet ==
    (DfEnded /\ ~(\E p \in DOMAIN fs0 : IsDat(p)))
    => pc = "raised" /\ table = <<>>

\* C9 as stated: read_specific_lines(f, [0, 1]) yields the lines of index 0
\* and 1, in that order and nothing else, and takes no line of an index
\* above 1 from the file; on a file of fewer than 2 lines header_date_time
\* fails (any exception is taken for FileTooShort) and returns no time.
C9_FirstTwoLines ==
    /\ gen # <<>> =>
          /\ gen.taken <= 2
          /\ gen.ended =>
                gen.yielded = SubSeq(rfile, 1, Min(2, Len(rfile)))
    /\ (pc \in {"returned", "raised"} /\ variant = "none" /\ Len(rfile) < 2)
          => pc = "raised"

====
